---- MODULE Spec2Model ----
(***************************************************************************)
(* Model of the plagiarism-analysis pipeline of src/main.py:               *)
(* process_analysis (the orchestrator), calculate_similarity (the scorer   *)
(* with its retry), extract_text, split_text, search_google,               *)
(* scrape_website, the record-store and blob-store calls they make, and    *)
(* start_analysis (the trigger endpoint) with the runs it schedules.       *)
(*                                                                         *)
(* Units.  A similarity is a float in the code; here it is an integer      *)
(* number of millionths (150051 is 0.150051).  A score or a percentage     *)
(* with two decimals is an integer number of hundredths (1501 is 15.01).   *)
(* A text is a sequence of characters, each a one-character string or,     *)
(* where the language has no escape for it, its code point ("U+00A0").     *)
(***************************************************************************)
EXTENDS Integers, Sequences, FiniteSets, Bags, TLC

\* ---------------------------------------------------------------- bounds
\* Largest number of chunks of a stored document.
MaxChunks == 2
\* Largest number of results the search provider returns for one query.
MaxSources == 2
\* Largest number of chunks of the document of a run that is not the record's
\* first.
MaxRerunChunks == 1
\* Largest number of chunks of the document in SpecProgress.
MaxTotal == 70
\* Largest retry budget calculate_similarity is called with in SpecSim.
MaxBudget == 2
\* Longest text and largest limit split_text is called with in SpecSplit.
MaxTextLen == 6
MaxLimit == 3
\* Largest number of calls of the trigger endpoint in SpecTrigger, and largest
\* number of writes of the record one run makes there.
MaxCalls == 3
MaxRunWrites == 2

\* ------------------------------------------------------ program constants
\* split_text(user_text, limit=500)
ChunkLimit == 500
\* def calculate_similarity(text1, text2, retries=2)
DefaultRetries == 2
\* if score > 15 (in hundredths)
Threshold == 15 * 100

\* ------------------------------------------------------------------ texts
\* The characters str.split() and str.strip() take for whitespace (those for
\* which str.isspace() is true).  A character the language has no escape for is
\* written as its code point.
Whitespace ==
    {" ", "\t", "\n", "\r", "\f", "U+000B", "U+001C", "U+001D", "U+001E", "U+001F",
     "U+0085", "U+00A0", "U+1680", "U+2000", "U+2001", "U+2002", "U+2003",
     "U+2004", "U+2005", "U+2006", "U+2007", "U+2008", "U+2009", "U+200A",
     "U+2028", "U+2029", "U+202F", "U+205F", "U+3000"}

IsSpace(c) == c \in Whitespace

Min(a, b) == IF a < b THEN a ELSE b

\* str.strip(): the text without its leading and trailing whitespace.
strip(text) ==
    LET ink == {i \in DOMAIN text : ~IsSpace(text[i])}
    IN  IF ink = {} THEN <<>>
        ELSE LET first == CHOOSE i \in ink : \A j \in ink : i <= j
                 last  == CHOOSE i \in ink : \A j \in ink : j <= i
             IN  SubSeq(text, first, last)

\* str.split() on text[lo..hi]: the maximal runs of non-whitespace characters,
\* in order.  Computed by halving: a run that crosses the middle is the last
\* run of the left half glued to the first run of the right half.
RECURSIVE split_range(_, _, _)
split_range(text, lo, hi) ==
    IF lo > hi THEN <<>>
    ELSE IF lo = hi THEN (IF IsSpace(text[lo]) THEN <<>> ELSE << <<text[lo]>> >>)
    ELSE LET mid == (lo + hi) \div 2
             l   == split_range(text, lo, mid)
             r   == split_range(text, mid + 1, hi)
         IN  IF ~IsSpace(text[mid]) /\ ~IsSpace(text[mid + 1])
             THEN SubSeq(l, 1, Len(l) - 1) \o << l[Len(l)] \o r[1] >> \o Tail(r)
             ELSE l \o r

split(text) == split_range(text, 1, Len(text))

\* " ".join(words)
RECURSIVE join_range(_, _, _)
join_range(words, lo, hi) ==
    IF lo > hi THEN <<>>
    ELSE IF lo = hi THEN words[lo]
    ELSE LET mid == (lo + hi) \div 2
         IN  join_range(words, lo, mid) \o <<" ">> \o join_range(words, mid + 1, hi)

join(words) == join_range(words, 1, Len(words))

\* The start offsets of the full slices only.
range_starts_full(n, step) == [k \in 1..(n \div step) |-> (k - 1) * step]

\* range(0, n, step): the start offsets 0, step, 2*step, ... below n.
range_starts(n, step) == [k \in 1..((n + step - 1) \div step) |-> (k - 1) * step]

\* [" ".join(words[i:i + limit]) for i in range(0, len(words), limit)]
split_text(text, limit) ==
    LET words  == split(text)
        starts == range_starts(Len(words), limit)
    IN  [k \in DOMAIN starts |->
            join(SubSeq(words, starts[k] + 1, Min(starts[k] + limit, Len(words))))]

\* A stored file: whether fitz can open it as a PDF, the text of its pages, and
\* the first page whose get_text() raises (0 when none does).
RECURSIVE concat_pages(_)
concat_pages(pages) ==
    IF pages = <<>> THEN <<>> ELSE Head(pages) \o concat_pages(Tail(pages))

\* extract_text(file_content): text grows page by page inside the try block;
\* the bare except ends the reading at the first exception, of fitz.open or of
\* a page, and the text read so far is returned.
extract_text(file_content) ==
    IF ~file_content.is_pdf THEN <<>>
    ELSE IF file_content.raises_at = 0 THEN concat_pages(file_content.pages)
    ELSE concat_pages(SubSeq(file_content.pages, 1, file_content.raises_at - 1))

\* --------------------------------------------------- calculate_similarity
\* What one requests.post to the similarity backend, and the parsing of its
\* answer, can come to:
\*   timeout      requests raises Timeout
\*   conn_error   requests raises ConnectionError
\*   http_error   a response whose status_code is not 200
\*   bad_json     status 200, response.json() raises (unparseable body)
\*   non_list     status 200, JSON that is not a list (e.g. {"error": ...})
\*   empty_list   status 200, the JSON list []
\*   non_numeric  status 200, a list whose first element float() rejects
\*   valid        status 200, a list whose first element is the number value
\* The valid values are similarities in millionths; 0.15005 lies half-way
\* between two hundredths of a percent.
SimValues == {-100000, 150049, 150050, 150051, 400000}

Outcomes ==
    [kind : {"timeout", "conn_error", "http_error", "bad_json", "non_list",
             "empty_list", "non_numeric"}, value : {0}]
    \cup [kind : {"valid"}, value : SimValues]

\* The outcomes that raise inside the try block of calculate_similarity: the
\* two requests exceptions, response.json() on an unparseable body and float()
\* on a non-numeric element.  The bare except catches them all.
RaisesInTry(o) == o.kind \in {"timeout", "conn_error", "bad_json", "non_numeric"}

\* The value of the try block when nothing raises (lines 58-60).
TryValue(o) ==
    IF o.kind = "http_error" THEN 0
    ELSE IF o.kind = "valid" THEN o.value
    ELSE 0

\* calculate_similarity giving up one retry early (retries > 1).
RECURSIVE calculate_similarity_short(_, _)
calculate_similarity_short(script, retries) ==
    LET o == Head(script)
    IN  IF ~RaisesInTry(o)
        THEN [value |-> TryValue(o), calls |-> 1, sleeps |-> 0]
        ELSE IF retries > 1
             THEN LET again == calculate_similarity_short(Tail(script), retries - 1)
                  IN  [value  |-> again.value,
                       calls  |-> again.calls + 1,
                       sleeps |-> again.sleeps + 1]
             ELSE [value |-> 0, calls |-> 1, sleeps |-> 0]

\* calculate_similarity(text1, text2, retries), against a backend that answers
\* the successive calls with script[1], script[2], ...  The result carries the
\* returned similarity, the number of requests made and of time.sleep(5) calls.
RECURSIVE calculate_similarity(_, _)
calculate_similarity(script, retries) ==
    LET o == Head(script)
    IN  IF ~RaisesInTry(o)
        THEN [value |-> TryValue(o), calls |-> 1, sleeps |-> 0]
        ELSE IF retries > 0
             THEN LET again == calculate_similarity(Tail(script), retries - 1)
                  IN  [value  |-> again.value,
                       calls  |-> again.calls + 1,
                       sleeps |-> again.sleeps + 1]
             ELSE [value |-> 0, calls |-> 1, sleeps |-> 0]

\* The backend scripts long enough for a call with the given budget.
Scripts(budget) == [1..(budget + 1) -> Outcomes]

\* ------------------------------------------------------- float arithmetic
\* The code computes its scores and its progress values in binary floating
\* point (IEEE 754 double precision).  A float that is not negative is here
\* the binary digits of its mantissa, most significant first and without
\* leading zeros, and the exponent of the last digit: its value is
\* bits * 2^exp.  Zero has no digit.
Precision == 53

\* The binary digits of a natural number.
RECURSIVE ToBits(_)
ToBits(n) == IF n = 0 THEN <<>> ELSE Append(ToBits(n \div 2), n % 2)

\* The natural number with the given binary digits.
RECURSIVE FromBits(_)
FromBits(bits) ==
    IF bits = <<>> THEN 0
    ELSE 2 * FromBits(SubSeq(bits, 1, Len(bits) - 1)) + bits[Len(bits)]

\* bits + 1
RECURSIVE Increment(_)
Increment(bits) ==
    IF bits = <<>> THEN <<1>>
    ELSE IF bits[Len(bits)] = 0 THEN [bits EXCEPT ![Len(bits)] = 1]
    ELSE Append(Increment(SubSeq(bits, 1, Len(bits) - 1)), 0)

\* The float nearest to bits * 2^exp (plus, when sticky, something smaller
\* than the last digit): round to nearest, ties to even.
RoundBits(bits, exp, sticky) ==
    IF Len(bits) <= Precision THEN [bits |-> bits, exp |-> exp]
    ELSE LET kept == SubSeq(bits, 1, Precision)
             rest == SubSeq(bits, Precision + 1, Len(bits))
             more == sticky \/ \E i \in 2..Len(rest) : rest[i] = 1
             up   == rest[1] = 1 /\ (more \/ kept[Precision] = 1)
             m    == IF up THEN Increment(kept) ELSE kept
             e    == exp + Len(rest)
         IN  IF Len(m) > Precision
             THEN [bits |-> SubSeq(m, 1, Precision), exp |-> e + 1]
             ELSE [bits |-> m, exp |-> e]

\* Long division: the digits of the quotient found so far, the exponent of the
\* last one and the remainder r of the division by d, carried on until the
\* division is exact or one digit more than the precision is known.
RECURSIVE DivBits(_, _, _, _)
DivBits(r, d, bits, exp) ==
    IF r = 0 \/ Len(bits) > Precision
    THEN [bits |-> bits, exp |-> exp, sticky |-> r # 0]
    ELSE LET b == (2 * r) \div d
         IN  DivBits((2 * r) % d, d,
                     IF bits = <<>> /\ b = 0 THEN <<>> ELSE Append(bits, b),
                     exp - 1)

\* n / d for a natural n and a positive d: the float nearest to the quotient.
\* It is also the float a decimal literal of that value is parsed to.
FloatDiv(n, d) ==
    LET q == DivBits(n % d, d, ToBits(n \div d), 0)
    IN  RoundBits(q.bits, q.exp, q.sticky)

\* The digits of bits * k + carry, for a positive k: digit by digit from the
\* last one, until no digit and no carry is left.
RECURSIVE MulBits(_, _, _)
MulBits(bits, k, carry) ==
    IF carry = 0 /\ bits = <<>> THEN <<>>
    ELSE LET last == IF bits = <<>> THEN 0 ELSE bits[Len(bits)]
             rest == IF bits = <<>> THEN <<>> ELSE SubSeq(bits, 1, Len(bits) - 1)
             t    == last * k + carry
         IN  Append(MulBits(rest, k, t \div 2), t % 2)

\* x * k for a float x and a positive integer k.
FloatMul(x, k) == RoundBits(MulBits(x.bits, k, 0), x.exp, FALSE)

\* The integer part of bits * 2^exp.
IntPart(bits, exp) ==
    IF exp >= 0 THEN FromBits(bits) * 2^exp
    ELSE IF Len(bits) > -exp THEN FromBits(SubSeq(bits, 1, Len(bits) + exp))
    ELSE 0

\* int(x) for a float x that is not negative.
FloatToInt(x) == IntPart(x.bits, x.exp)

\* The integer nearest to bits * 2^exp, the even one of two equally near.
NearestInt(bits, exp) ==
    LET whole == IntPart(bits, exp)
        first == Len(bits) + exp + 1    \* where the digit worth 1/2 stands
        half  == exp < 0 /\ first >= 1 /\ bits[first] = 1
        more  == \E i \in (first + 1)..Len(bits) : bits[i] = 1
    IN  IF half /\ (more \/ whole % 2 = 1) THEN whole + 1 ELSE whole

\* round(x, 2) for a float x that is not negative, in hundredths: the decimal
\* with two places nearest to the exact value of x.
FloatRound2(x) == NearestInt(MulBits(x.bits, 100, 0), x.exp)

\* round(similarity * 100, 2), in hundredths, of a similarity in millionths:
\* the float of the similarity, its float product by 100, and the rounding of
\* that product.  The sign goes through all three unchanged.
RoundScore(similarity) ==
    LET magnitude == IF similarity < 0 THEN -similarity ELSE similarity
        hundredths == FloatRound2(FloatMul(FloatDiv(magnitude, 1000000), 100))
    IN  IF similarity < 0 THEN -hundredths ELSE hundredths

\* The values calculate_similarity can return when called with the given
\* budget, over all the ways the backend can answer.
SimReturns(retries) ==
    {calculate_similarity(script, retries).value : script \in Scripts(retries)}

\* calculate_similarity(chunk, web_text): the default budget.
DefaultSimReturns == SimReturns(DefaultRetries)

\* The call as a whole failed: its last request did not get a valid answer.
SimFailed(script, retries) ==
    script[calculate_similarity(script, retries).calls].kind # "valid"

\* The calls of calculate_similarity(chunk, web_text) as the pipeline sees
\* them: the value returned and whether the call failed.
DefaultSimCalls ==
    {[value  |-> calculate_similarity(script, DefaultRetries).value,
      failed |-> SimFailed(script, DefaultRetries)] :
        script \in Scripts(DefaultRetries)}

\* score = round(similarity * 100, 2) for every value the call can return.
Scores == [similarity \in DefaultSimReturns |-> RoundScore(similarity)]

\* ------------------------------------------------------------- the stores
\* A text of n one-letter words separated by single blanks.
MakeText(n) == [i \in 1..(2 * n - 1) |-> IF i % 2 = 1 THEN "w" ELSE " "]

\* The files the blob store may hold at file_path: one that is no PDF, a PDF
\* without pages, a PDF whose pages hold only whitespace, a damaged PDF whose
\* first page cannot be read, a damaged PDF whose second page cannot be read,
\* and for every chunk count k up to MaxChunks a PDF whose text has
\* ChunkLimit*(k-1)+1 words.
Files ==
    << [is_pdf |-> FALSE, pages |-> << MakeText(2) >>, raises_at |-> 0],
       [is_pdf |-> TRUE,  pages |-> << >>, raises_at |-> 0],
       [is_pdf |-> TRUE,  pages |-> << <<" ", "\n", "\r">>, <<"\t", "\f", "U+00A0">> >>,
        raises_at |-> 0],
       [is_pdf |-> TRUE,  pages |-> << MakeText(2) >>, raises_at |-> 1],
       [is_pdf |-> TRUE,  pages |-> << MakeText(2), MakeText(1) >>, raises_at |-> 2] >>
    \o [k \in 1..MaxChunks |->
          [is_pdf |-> TRUE, pages |-> << MakeText(ChunkLimit * (k - 1) + 1) >>,
           raises_at |-> 0]]

\* Line 111, for each stored file: user_text = extract_text(file_bin)
UserTexts == [f \in DOMAIN Files |-> extract_text(Files[f])]

\* Line 118, for each stored file: chunks = split_text(user_text, limit=500)
UserChunks == [f \in DOMAIN Files |-> split_text(UserTexts[f], ChunkLimit)]

\* The urls the search provider returns; NoLink stands for a result without a
\* 'link' key, on which source['link'] raises KeyError.
Urls == {"u1", "u2"}
NoLink == "no-link"
SearchResults ==
    LET all == UNION {[1..n -> [link : Urls \cup {NoLink}]] : n \in 0..MaxSources}
    IN  \* the results after one without a link are never read
        {found \in all : \A i \in DOMAIN found :
                             found[i].link = NoLink => i = Len(found)}

\* What the request of search_google can come to: an exception of requests,
\* or a response with a status and a body that is unparseable, JSON that is no
\* object, an object without 'organic' (the provider's error answers), or an
\* object with the ranked results.  The status is never looked at.
SearchOutcomes ==
    [kind : {"timeout", "conn_error"}, status : {0}, body : {"none"},
     organic : {<<>>}]
    \cup [kind : {"response"}, status : {200, 403},
          body : {"bad_json", "not_object", "no_organic"}, organic : {<<>>}]
    \cup [kind : {"response"}, status : {200}, body : {"organic"},
          organic : SearchResults]

\* search_google(query): response.json().get('organic', []); the bare except
\* turns every exception into [].
search_google(o) ==
    IF o.kind # "response" THEN <<>>
    ELSE IF o.body \in {"bad_json", "not_object"} THEN <<>>
    ELSE IF o.body = "no_organic" THEN <<>>
    ELSE o.organic

\* The search failed: no response, a non-success status or an unparseable body.
SearchFailed(o) == o.kind # "response" \/ o.status # 200 \/ o.body = "bad_json"

\* web_sources = search_google(search_query) as the pipeline sees it: the
\* list returned and whether the search failed.
SearchCalls ==
    {[found |-> search_google(o), failed |-> SearchFailed(o)] : o \in SearchOutcomes}

\* [:2000]
ScrapeLimit == 2000

\* What the request of scrape_website can come to: an exception of requests,
\* or a response with a status and the texts of its <p> elements (none for a
\* body that is no HTML).  The status is never looked at.
FetchOutcomes ==
    [kind : {"timeout", "conn_error"}, status : {0}, paragraphs : {<<>>}]
    \cup [kind : {"response"}, status : {200, 404},
          paragraphs : {<<>>, << <<"p">>, <<"q">> >>}]

\* scrape_website(url): " ".join(p.get_text() for p in find_all('p'))[:2000];
\* the bare except turns every exception into "".
scrape_website(o) ==
    IF o.kind # "response" THEN <<>>
    ELSE LET text == join(o.paragraphs)
         IN  SubSeq(text, 1, Min(ScrapeLimit, Len(text)))

\* The fetch failed: no response or a non-success status.
FetchFailed(o) == o.kind # "response" \/ o.status # 200

\* web_text = scrape_website(link) as the pipeline sees it: the text returned
\* and whether the fetch failed.
FetchCalls ==
    {[web_text |-> scrape_website(o), failed |-> FetchFailed(o)] : o \in FetchOutcomes}

\* The status labels process_analysis writes, and the one the record has when
\* the run starts (the record is created before the pipeline).
StCreated   == <<"created">>
StReading   == <<"Lecture du document...">>
StBlock(i, n) == <<"Analyse bloc", i, n>>
StReporting == <<"Generation du rapport...">>
StDone      == <<"termine">>
StError     == <<"erreur">>

NoReport == "none"
RemotePdfPath == "reports/report_<analysis_id>.pdf"

VARIABLES
    pc,                 \* where process_analysis stands
    file,               \* index in Files of the blob stored at file_path
    before,             \* the record, the tables and the blob store as the run finds them
    analysis,           \* the row of table analyses with id analysis_id
    writes,             \* the updates of that row made so far, in order
    notifications,      \* the rows inserted into table notifications
    results,            \* the rows inserted into table analysis_results (a bag)
    local_report,       \* temp_<analysis_id>.pdf exists on the local disk
    remote_report,      \* the report has been uploaded to the blob store
    total_chunks, index, web_sources, src, chunk_max_score, score,
    all_chunk_scores, detected_sources, final_global_score,
    scored,             \* the largest score computed so far for the current chunk, if any
    chunk_best,         \* per finished chunk: its largest computed score, 0 if none
    stages,             \* the kinds of pipeline work performed so far
    raised_at,          \* the step of the try block that raised, or "none"
    failed,             \* "search", "fetch" or "similarity" when the step just taken
                        \* is that call and it failed; "none" otherwise
    sim_pc, sim_script, sim_retries, sim_result,  \* one call of calculate_similarity
    split_pc, split_in, split_limit, split_out,   \* one call of split_text
    table,              \* table analyses: what each identifier's row holds
    calls,              \* the calls of start_analysis handled so far, in order
    tasks               \* the runs of process_analysis added as background tasks

store_vars == <<analysis, writes, notifications, results, local_report, remote_report>>
local_vars == <<total_chunks, index, web_sources, src, chunk_max_score, score,
                all_chunk_scores, detected_sources, final_global_score>>
sim_vars   == <<sim_pc, sim_script, sim_retries, sim_result>>
split_vars == <<split_pc, split_in, split_limit, split_out>>
trigger_vars == <<table, calls, tasks>>
aux_vars   == <<split_vars, trigger_vars>>
hist_vars  == <<scored, chunk_best, stages, raised_at, failed>>
vars == <<pc, file, before, store_vars, local_vars, hist_vars, sim_vars, aux_vars>>

NoResult == [value |-> 0, calls |-> 0, sleeps |-> 0]

\* What a run can find when it starts.  start_analysis looks at nothing but
\* file_path, so the record may be one no run has touched, one an earlier run
\* has finished (its score, its report path, its match row, its notification
\* and its uploaded report are there), or one an earlier run has failed on at
\* the upload of line 167 (its match row, its failure notification and the
\* local report file that line 169 did not remove are there).
Fresh ==
    [analysis |-> [status |-> StCreated, progress |-> 0, plagiarism_score |-> 0,
                   report_path |-> NoReport],
     notifications |-> <<>>,
     results |-> EmptyBag,
     local_report |-> FALSE,
     remote_report |-> FALSE]
AfterDone ==
    [analysis |-> [status |-> StDone, progress |-> 100, plagiarism_score |-> 4000,
                   report_path |-> RemotePdfPath],
     notifications |-> <<"success">>,
     results |-> SetToBag({[url |-> "u1", similarity_score |-> 4000]}),
     local_report |-> FALSE,
     remote_report |-> TRUE]
AfterError ==
    [analysis |-> [status |-> StError, progress |-> 0, plagiarism_score |-> 0,
                   report_path |-> NoReport],
     notifications |-> <<"failure">>,
     results |-> SetToBag({[url |-> "u1", similarity_score |-> 4000]}),
     local_report |-> TRUE,
     remote_report |-> FALSE]
Histories == {Fresh, AfterDone, AfterError}

\* The record, the tables, the disk and the locals before the run's first step.
InitPipeline ==
    /\ analysis = before.analysis
    /\ writes = <<>>
    /\ notifications = before.notifications
    /\ results = before.results
    /\ local_report = before.local_report
    /\ remote_report = before.remote_report
    /\ total_chunks = 0 /\ index = 0 /\ web_sources = <<>> /\ src = 0
    /\ chunk_max_score = 0 /\ score = 0
    /\ all_chunk_scores = <<>> /\ detected_sources = <<>>
    /\ final_global_score = 0
    /\ scored = {} /\ chunk_best = <<>>
    /\ stages = {}
    /\ raised_at = "none"
    /\ failed = "none"

\* No call of calculate_similarity on its own is under way.
SimIdle ==
    /\ sim_pc = "idle" /\ sim_script = <<>> /\ sim_retries = 0
    /\ sim_result = NoResult

\* No call of split_text on its own is under way.
SplitIdle ==
    /\ split_pc = "idle" /\ split_in = <<>> /\ split_limit = 1
    /\ split_out = <<>>

\* The identifiers the trigger endpoint is called with, and what table
\* analyses can hold for one: no row, a row whose file_path is null, a row
\* whose file_path is "" and a row with the path of a stored file.
Ids == {"a1", "a2"}
RowKinds == {"absent", "null_path", "empty_path", "path"}

\* The trigger endpoint is not in use.
TriggerIdle ==
    /\ table = [id \in Ids |-> "path"]
    /\ calls = <<>>
    /\ tasks = <<>>

\* The state when start_analysis has scheduled process_analysis for a record
\* with a stored file: the first run of the record over any of the files, or a
\* later run over a file of at most MaxRerunChunks chunks.
Init ==
    /\ pc = "start"
    /\ file \in DOMAIN Files
    /\ before \in Histories
    /\ before # Fresh => Len(UserChunks[file]) <= MaxRerunChunks
    /\ InitPipeline
    /\ SimIdle
    /\ SplitIdle
    /\ TriggerIdle

\* supabase.table("analyses").update(fields).eq("id", analysis_id).execute()
UpdateAnalysis(fields) ==
    /\ analysis' = [k \in DOMAIN analysis |->
                      IF k \in DOMAIN fields THEN fields[k] ELSE analysis[k]]
    /\ writes' = Append(writes, fields)

\* A statement of the try block raises: control goes to the except clause of
\* line 187 and nothing of the statement has taken effect.  The except clause
\* reads no local of the try block; the temporaries of the loop body are reset
\* as they are at the end of an iteration.
Raise ==
    /\ pc' = "except"
    /\ raised_at' = pc
    /\ web_sources' = <<>> /\ src' = 0 /\ chunk_max_score' = 0 /\ score' = 0
    /\ scored' = {}
    /\ failed' = "none"
    /\ UNCHANGED <<file, before, store_vars, total_chunks, index, all_chunk_scores,
                   detected_sources, final_global_score, chunk_best, stages,
                   sim_vars, aux_vars>>

\* ------------------------------------------------------- process_analysis
\* Line 109: the first update of the record.
StartReading ==
    /\ pc = "start"
    /\ \/ /\ UpdateAnalysis([status |-> StReading, progress |-> 10])
          /\ pc' = "download"
          /\ UNCHANGED <<file, before, notifications, results, local_report, remote_report,
                         local_vars, hist_vars, sim_vars, aux_vars>>
       \/ Raise

\* int((index / total_chunks) * 70) + 10: the float quotient, its float
\* product by 70, and the truncation of that product.
BlockProgress(i, total) == FloatToInt(FloatMul(FloatDiv(i, total), 70)) + 10

\* The numbers of chunks of the long documents of SpecProgress: the ten
\* largest up to MaxTotal.
LongTotals == {n \in 1..MaxTotal : n > MaxTotal - 10}

\* Line 125 for every block of every document length of the model.
Progresses ==
    [total \in (1..MaxChunks) \cup LongTotals |->
        [i \in 0..(total - 1) |-> BlockProgress(i, total)]]

\* The blank test without strip().
IsBlankEmptyOnly(user_text) == user_text = <<>>

\* Line 113: if not user_text.strip()
IsBlank(user_text) == strip(user_text) = <<>>

\* The state in which the chunk loop is entered, or left at once when there is
\* no chunk (lines 118-124 and 153).
EnterLoop(chunks) ==
    /\ total_chunks' = Len(chunks)
    /\ index' = 0
    /\ detected_sources' = <<>>
    /\ all_chunk_scores' = <<>>
    /\ IF Len(chunks) > 0
       THEN pc' = "block" /\ UNCHANGED final_global_score
       ELSE pc' = "report_status" /\ final_global_score' = 0
    /\ UNCHANGED <<web_sources, src, chunk_max_score, score>>

\* Lines 110-121: download, extract_text, the blank test and split_text.
DownloadAndSplit ==
    /\ pc = "download"
    /\ \/ /\ LET user_text == UserTexts[file]
             IN  IF IsBlank(user_text)
                 THEN /\ pc' = "blank"
                      /\ UNCHANGED <<local_vars, stages>>
                 ELSE /\ EnterLoop(UserChunks[file])
                      /\ stages' = stages \cup {"chunking"}
          /\ UNCHANGED <<file, before, store_vars, scored, chunk_best, raised_at, failed,
                         sim_vars, aux_vars>>
       \/ Raise

\* Lines 114-115: the blank document, written as done, and the return.
BlankDone ==
    /\ pc = "blank"
    /\ \/ /\ UpdateAnalysis([status |-> StDone, plagiarism_score |-> 0,
                             progress |-> 100])
          /\ pc' = "returned"
          /\ UNCHANGED <<file, before, notifications, results, local_report, remote_report,
                         local_vars, hist_vars, sim_vars, aux_vars>>
       \/ Raise

\* Lines 125-126: the progress update at the head of the loop body.
BlockStatus ==
    /\ pc = "block"
    /\ \/ /\ UpdateAnalysis([status |-> StBlock(index + 1, total_chunks),
                             progress |-> Progresses[total_chunks][index]])
          /\ pc' = "search"
          /\ UNCHANGED <<file, before, notifications, results, local_report, remote_report,
                         local_vars, hist_vars, sim_vars, aux_vars>>
       \/ Raise

\* Lines 128-131: search_google never raises; a provider error or a timeout
\* gives [], like an empty result list.
Search ==
    /\ pc = "search"
    /\ \E call \in SearchCalls :
          /\ web_sources' = call.found
          /\ failed' = IF call.failed THEN "search" ELSE "none"
    /\ chunk_max_score' = 0
    /\ src' = 1
    /\ pc' = "source"
    /\ stages' = stages \cup {"search"}
    /\ UNCHANGED <<file, before, store_vars, total_chunks, index, score, all_chunk_scores,
                   detected_sources, final_global_score, scored, chunk_best,
                   raised_at, sim_vars, aux_vars>>

\* The inner loop ending one result early.
ExhaustedEarly(position, sources) == position >= Len(sources)

\* Line 132, for source in web_sources: the loop ends when the position is
\* past the last result.
Exhausted(position, sources) == position > Len(sources)

\* Lines 132-135: the next search result: source['link'] and scrape_website,
\* which never raises and gives "" on any error.
Fetch ==
    /\ pc = "source"
    /\ ~Exhausted(src, web_sources)
    /\ \/ /\ web_sources[src].link = NoLink
          /\ Raise
       \/ /\ web_sources[src].link # NoLink
          /\ \E call \in FetchCalls :
                /\ IF call.web_text = <<>>
                   THEN pc' = "source" /\ src' = src + 1
                   ELSE pc' = "similarity" /\ src' = src
                /\ failed' = IF call.failed THEN "fetch" ELSE "none"
          /\ stages' = stages \cup {"fetch"}
          /\ UNCHANGED <<file, before, store_vars, total_chunks, index, web_sources,
                         chunk_max_score, score, all_chunk_scores, detected_sources,
                         final_global_score, scored, chunk_best, raised_at,
                         sim_vars, aux_vars>>

\* The largest element of a non-empty set of integers.
Largest(S) == CHOOSE x \in S : \A y \in S : y <= x

\* Line 138: if score > chunk_max_score: chunk_max_score = score
NewMax(s, max_so_far) == IF s > max_so_far THEN s ELSE max_so_far

\* The threshold test with >= in place of >.
IsMatchInclusive(s) == s >= Threshold

\* Line 140: if score > 15
IsMatch(s) == s > Threshold

\* Lines 136-140: calculate_similarity, the score and the chunk's maximum.
Similarity ==
    /\ pc = "similarity"
    /\ \E call \in DefaultSimCalls :
          LET s == Scores[call.value]
          IN  /\ score' = s
              /\ failed' = IF call.failed THEN "similarity" ELSE "none"
              /\ chunk_max_score' = NewMax(s, chunk_max_score)
              /\ scored' = {Largest(scored \cup {s})}
              /\ IF IsMatch(s)
                 THEN pc' = "insert" /\ src' = src
                 ELSE pc' = "source" /\ src' = src + 1
    /\ stages' = stages \cup {"similarity"}
    /\ UNCHANGED <<file, before, store_vars, total_chunks, index, web_sources,
                   all_chunk_scores, detected_sources, final_global_score,
                   chunk_best, raised_at, sim_vars, aux_vars>>

\* The reported list keeping, for a url, the highest score matched so far.
DetectHighest(sources, link, s) ==
    IF \E i \in DOMAIN sources : sources[i].url = link
    THEN [i \in DOMAIN sources |->
            IF sources[i].url = link /\ s > sources[i].score
            THEN [url |-> link, score |-> s]
            ELSE sources[i]]
    ELSE Append(sources, [url |-> link, score |-> s])

\* The reported list taking the run's first match only.
DetectFirstOnly(sources, link, s) ==
    IF sources # <<>> THEN sources ELSE Append(sources, [url |-> link, score |-> s])

\* Lines 148-149: the first match of a url enters the reported list.
Detect(sources, link, s) ==
    IF \E i \in DOMAIN sources : sources[i].url = link
    THEN sources
    ELSE Append(sources, [url |-> link, score |-> s])

\* Lines 141-149: the match row and the reported list.
InsertMatch ==
    /\ pc = "insert"
    /\ \/ /\ results' = results (+) SetToBag({[url |-> web_sources[src].link,
                                               similarity_score |-> score]})
          /\ detected_sources' = Detect(detected_sources, web_sources[src].link, score)
          /\ src' = src + 1
          /\ pc' = "source"
          /\ stages' = stages \cup {"insert"}
          /\ failed' = "none"
          /\ UNCHANGED <<file, before, analysis, writes, notifications, local_report,
                         remote_report, total_chunks, index, web_sources,
                         chunk_max_score, score, all_chunk_scores,
                         final_global_score, scored, chunk_best, raised_at,
                         sim_vars, aux_vars>>
       \/ Raise

RECURSIVE sum(_)
sum(scores) == IF scores = <<>> THEN 0 ELSE Head(scores) + sum(Tail(scores))

\* round(total / n, 2) of a total in hundredths: the nearest hundredth.  When
\* the quotient lies exactly half-way, the float division and round() land on
\* either neighbour, depending on the operands' last bits.
RoundedMean(total, n) ==
    LET q == total \div n
        r == total % n
    IN  IF 2 * r < n THEN {q}
        ELSE IF 2 * r > n THEN {q + 1}
        ELSE {q, q + 1}

\* The mean taken over the chunks that scored above 0 only.
GlobalScoresOverScored(scores, total) ==
    LET hits == Cardinality({k \in DOMAIN scores : scores[k] > 0})
    IN  IF hits = 0 THEN {0} ELSE RoundedMean(sum(scores), hits)

\* Line 153: round(sum(all_chunk_scores) / total_chunks, 2) if all_chunk_scores else 0
GlobalScores(scores, total) ==
    IF scores = <<>> THEN {0} ELSE RoundedMean(sum(scores), total)

\* Lines 151-153: the chunk's maximum is recorded; the loop goes on to the
\* next chunk or ends with the global score.  web_sources, the position in
\* them, chunk_max_score and score are temporaries of the loop body: nothing
\* reads them before the next iteration assigns them, so they are reset here.
ChunkEnd ==
    /\ pc = "source"
    /\ Exhausted(src, web_sources)
    /\ all_chunk_scores' = Append(all_chunk_scores, chunk_max_score)
    /\ chunk_best' = Append(chunk_best, IF scored = {} THEN 0 ELSE Largest(scored))
    /\ scored' = {}
    /\ IF index + 1 < total_chunks
       THEN /\ index' = index + 1
            /\ pc' = "block"
            /\ UNCHANGED final_global_score
       ELSE /\ index' = index
            /\ pc' = "report_status"
            /\ final_global_score' \in GlobalScores(all_chunk_scores', total_chunks)
    /\ web_sources' = <<>> /\ src' = 0 /\ chunk_max_score' = 0 /\ score' = 0
    /\ failed' = "none"
    /\ UNCHANGED <<file, before, store_vars, total_chunks, detected_sources, stages,
                   raised_at, sim_vars, aux_vars>>

\* Line 156.
ReportStatus ==
    /\ pc = "report_status"
    /\ \/ /\ UpdateAnalysis([status |-> StReporting, progress |-> 90])
          /\ pc' = "select"
          /\ UNCHANGED <<file, before, notifications, results, local_report, remote_report,
                         local_vars, hist_vars, sim_vars, aux_vars>>
       \/ Raise

\* Lines 158-160: the read of file_name and user_id.
SelectOwner ==
    /\ pc = "select"
    /\ \/ /\ pc' = "generate"
          /\ UNCHANGED <<file, before, store_vars, local_vars, hist_vars,
                         sim_vars, aux_vars>>
       \/ Raise

\* Line 163: generate_styled_report writes temp_<analysis_id>.pdf with
\* pdf.output as its last statement; when it raises, no file was written.
GenerateReport ==
    /\ pc = "generate"
    /\ \/ /\ local_report' = TRUE
          /\ pc' = "upload"
          /\ stages' = stages \cup {"report"}
          /\ UNCHANGED <<file, before, analysis, writes, notifications, results,
                         remote_report, local_vars, scored, chunk_best, raised_at,
                         failed, sim_vars, aux_vars>>
       \/ Raise

\* Line 169, reached only when the upload returned:
\* if os.path.exists(pdf_local_path): os.remove(pdf_local_path)
RemoveLocal(exists) == FALSE

\* Lines 165-169: the upload and the removal of the local file.
UploadReport ==
    /\ pc = "upload"
    /\ \/ /\ remote_report' = TRUE
          /\ local_report' = RemoveLocal(local_report)
          /\ pc' = "finalize"
          /\ stages' = stages \cup {"upload"}
          /\ UNCHANGED <<file, before, analysis, writes, notifications, results,
                         local_vars, scored, chunk_best, raised_at, failed,
                         sim_vars, aux_vars>>
       \/ Raise

\* Lines 172-177.
Finalize ==
    /\ pc = "finalize"
    /\ \/ /\ UpdateAnalysis([status |-> StDone,
                             plagiarism_score |-> final_global_score,
                             progress |-> 100,
                             report_path |-> RemotePdfPath])
          /\ pc' = "notify"
          /\ UNCHANGED <<file, before, notifications, results, local_report, remote_report,
                         local_vars, hist_vars, sim_vars, aux_vars>>
       \/ Raise

\* Lines 180-185: the success notification, still inside the try block.
NotifySuccess ==
    /\ pc = "notify"
    /\ \/ /\ notifications' = Append(notifications, "success")
          /\ pc' = "returned"
          /\ UNCHANGED <<file, before, analysis, writes, results, local_report,
                         remote_report, local_vars, hist_vars,
                         sim_vars, aux_vars>>
       \/ Raise

\* The error update without the status.
ErrorFieldsNoStatus == [progress |-> 0, plagiarism_score |-> 0]

\* The error update without the reset of progress.
ErrorFieldsKeepProgress == [status |-> StError, plagiarism_score |-> 0]

\* Lines 190-194: the fields of the error update.
ErrorFields == [status |-> StError, progress |-> 0, plagiarism_score |-> 0]

\* Lines 187-194: the except clause writes the error state.  That update is
\* not guarded: when it raises, the exception leaves process_analysis.
HandleError ==
    /\ pc = "except"
    /\ \/ /\ UpdateAnalysis(ErrorFields)
          /\ pc' = "fail_select"
       \/ /\ pc' = "propagated"
          /\ UNCHANGED <<analysis, writes>>
    /\ UNCHANGED <<file, before, notifications, results, local_report, remote_report,
                   local_vars, hist_vars, sim_vars, aux_vars>>

\* Lines 197-199 and 206-207: the read of user_id opens the attempt to notify
\* the failure; an exception or an empty answer ends the run silently.
FailSelect ==
    /\ pc = "fail_select"
    /\ \E answer \in {"row", "empty", "raises"} :
          pc' = IF answer = "row" THEN "fail_notify" ELSE "returned"
    /\ stages' = stages \cup {"failure_notification"}
    /\ UNCHANGED <<file, before, store_vars, local_vars, scored, chunk_best, raised_at,
                   failed, sim_vars, aux_vars>>

\* Lines 200-207: the failure notification; an exception is swallowed.
NotifyFailure ==
    /\ pc = "fail_notify"
    /\ \/ notifications' = Append(notifications, "failure")
       \/ UNCHANGED notifications
    /\ pc' = "returned"
    /\ UNCHANGED <<file, before, analysis, writes, results, local_report, remote_report,
                   local_vars, hist_vars, sim_vars, aux_vars>>

Next ==
    \/ StartReading \/ DownloadAndSplit \/ BlankDone
    \/ BlockStatus \/ Search \/ Fetch \/ Similarity \/ InsertMatch \/ ChunkEnd
    \/ ReportStatus \/ SelectOwner \/ GenerateReport \/ UploadReport
    \/ Finalize \/ NotifySuccess
    \/ HandleError \/ FailSelect \/ NotifyFailure

Spec == Init /\ [][Next]_vars

\* The run when every external call eventually returns or raises: the step
\* the run is at is eventually taken.
SpecLive == Init /\ [][Next]_vars /\ WF_vars(Next)

\* ------------------------------------------ the run over a long document
\* Lines 110-121 for a long document, of up to MaxTotal chunks.  The document
\* is given by its number of chunks alone.
SplitLong ==
    /\ pc = "download"
    /\ \/ /\ \E n \in LongTotals : EnterLoop([k \in 1..n |-> <<"w">>])
          /\ stages' = stages \cup {"chunking"}
          /\ UNCHANGED <<file, before, store_vars, scored, chunk_best, raised_at,
                         failed, sim_vars, aux_vars>>
       \/ Raise

\* Line 129 when the search finds nothing for the chunk.
SearchNothing == Search /\ web_sources' = <<>>

InitProgress ==
    /\ pc = "start"
    /\ file = 0
    /\ before = Fresh
    /\ InitPipeline
    /\ SimIdle
    /\ SplitIdle
    /\ TriggerIdle

NextProgress ==
    \/ StartReading \/ SplitLong
    \/ BlockStatus \/ SearchNothing \/ ChunkEnd
    \/ ReportStatus \/ SelectOwner \/ GenerateReport \/ UploadReport
    \/ Finalize \/ NotifySuccess
    \/ HandleError \/ FailSelect \/ NotifyFailure

\* The run of process_analysis over a long document whose searches find
\* nothing.
SpecProgress == InitProgress /\ [][NextProgress]_vars

\* ------------------------------------- calculate_similarity on its own
\* One call of calculate_similarity with a retry budget and a backend script
\* drawn from the bounded sets.
InitSim ==
    /\ pc = "idle"
    /\ file = 1
    /\ before = Fresh
    /\ InitPipeline
    /\ sim_pc = "call"
    /\ sim_retries \in 0..MaxBudget
    /\ sim_script \in Scripts(MaxBudget)
    /\ sim_result = NoResult
    /\ SplitIdle
    /\ TriggerIdle

SimCall ==
    /\ sim_pc = "call"
    /\ sim_result' = calculate_similarity(sim_script, sim_retries)
    /\ sim_pc' = "returned"
    /\ UNCHANGED <<pc, file, before, store_vars, local_vars, hist_vars, sim_script,
                   sim_retries, aux_vars>>

NextSim == SimCall

SpecSim == InitSim /\ [][NextSim]_vars

\* ------------------------------------------------- split_text on its own
\* The characters of the texts split_text is called with: two letters, the
\* blank, the carriage return and the no-break space.
Alphabet == {"a", "b", " ", "\r", "U+00A0"}
Texts == UNION {[1..n -> Alphabet] : n \in 0..MaxTextLen}

\* One call of split_text with a text and a positive limit drawn from the
\* bounded sets.
InitSplit ==
    /\ pc = "idle"
    /\ file = 1
    /\ before = Fresh
    /\ InitPipeline
    /\ SimIdle
    /\ split_pc = "call"
    /\ split_in \in Texts
    /\ split_limit \in 1..MaxLimit
    /\ split_out = <<>>
    /\ TriggerIdle

SplitCall ==
    /\ split_pc = "call"
    /\ split_out' = split_text(split_in, split_limit)
    /\ split_pc' = "returned"
    /\ UNCHANGED <<pc, file, before, store_vars, local_vars, hist_vars, sim_vars,
                   split_in, split_limit, trigger_vars>>

NextSplit == SplitCall

SpecSplit == InitSplit /\ [][NextSplit]_vars

\* ------------------------------------------- the trigger endpoint and runs
\* What the select of line 282, .single().execute(), can come to for a row:
\* an exception (the store cannot be reached; for a missing row the client
\* library raises or answers without data, depending on its version) or an
\* answer whose data is the row.
LookupOutcomes(row) ==
    IF row = "absent" THEN {"raises", "no_data"} ELSE {"raises", "data"}

\* start_analysis(analysis_id): the answer to the caller and whether
\* process_analysis was added as a background task.  An exception of the
\* select leaves the handler and the framework answers 500.
start_analysis(lookup) ==
    IF lookup = "raises" THEN [answer |-> "server_error", scheduled |-> FALSE]
    ELSE IF lookup = "no_data" THEN [answer |-> "not_found", scheduled |-> FALSE]
    ELSE [answer |-> "started", scheduled |-> TRUE]

\* The runs of process_analysis that have started and not returned.
Active(ts) == {t \in DOMAIN ts : ts[t].state = "running"}

\* A coroutine started whatever else is executing, as a function run in a
\* thread pool is.
CanStartInThread(active) == TRUE

\* start_analysis and process_analysis are coroutines of the one event loop
\* of uvicorn.run(app): one starts only when no other is executing, and
\* process_analysis, which awaits nothing, executes until it returns.
CanStart(active) == active = {}

\* A call of POST /start-analysis/{analysis_id}: the handler runs from its
\* first statement to its return.
StartAnalysis ==
    /\ Len(calls) < MaxCalls
    /\ CanStart(Active(tasks))
    /\ \E id \in Ids : \E lookup \in LookupOutcomes(table[id]) :
          LET r == start_analysis(lookup)
          IN  /\ calls' = Append(calls,
                     [id |-> id, lookup |-> lookup, answer |-> r.answer,
                      task |-> IF r.scheduled THEN Len(tasks) + 1 ELSE 0,
                      sent |-> FALSE])
              /\ tasks' = IF r.scheduled
                          THEN Append(tasks, [id |-> id, file_path |-> table[id],
                                              state |-> "scheduled", writes |-> 0])
                          ELSE tasks
    /\ UNCHANGED <<pc, file, before, store_vars, local_vars, hist_vars, sim_vars,
                   split_vars, table>>

\* The framework sends the handler's answer; the background tasks of a call
\* run after its answer has been sent.
SendResponse ==
    /\ CanStart(Active(tasks))
    /\ \E c \in DOMAIN calls :
          /\ ~calls[c].sent
          /\ calls' = [calls EXCEPT ![c].sent = TRUE]
    /\ UNCHANGED <<pc, file, before, store_vars, local_vars, hist_vars, sim_vars,
                   split_vars, table, tasks>>

\* The call that added the task t.
CallOf(t) == CHOOSE c \in DOMAIN calls : calls[c].task = t

\* Line 109: a run starts with its first write of the record.
RunStart ==
    /\ CanStart(Active(tasks))
    /\ \E t \in DOMAIN tasks :
          /\ tasks[t].state = "scheduled"
          /\ calls[CallOf(t)].sent
          /\ tasks' = [tasks EXCEPT ![t].state = "running", ![t].writes = 1]
    /\ UNCHANGED <<pc, file, before, store_vars, local_vars, hist_vars, sim_vars,
                   split_vars, table, calls>>

\* A later write of the record by a run that has started.
RunWrite ==
    /\ \E t \in Active(tasks) :
          /\ tasks[t].writes < MaxRunWrites
          /\ tasks' = [tasks EXCEPT ![t].writes = @ + 1]
    /\ UNCHANGED <<pc, file, before, store_vars, local_vars, hist_vars, sim_vars,
                   split_vars, table, calls>>

\* The run returns (or its exception leaves it): its last write is behind it.
RunEnd ==
    /\ \E t \in Active(tasks) :
          tasks' = [tasks EXCEPT ![t].state = "ended"]
    /\ UNCHANGED <<pc, file, before, store_vars, local_vars, hist_vars, sim_vars,
                   split_vars, table, calls>>

InitTrigger ==
    /\ pc = "idle"
    /\ file = 1
    /\ before = Fresh
    /\ InitPipeline
    /\ SimIdle
    /\ SplitIdle
    /\ table \in [Ids -> RowKinds]
    /\ calls = <<>>
    /\ tasks = <<>>

NextTrigger == StartAnalysis \/ SendResponse \/ RunStart \/ RunWrite \/ RunEnd

SpecTrigger == InitTrigger /\ [][NextTrigger]_vars

\* ================================================================ claims
Last(seq) == seq[Len(seq)]
Returned == pc = "returned"
Ended == pc \in {"returned", "propagated"}
AfterRaise == raised_at # "none"

\* The rows this run has inserted into analysis_results and into notifications,
\* and whether it has written the error status or a report path.
RunRows == results (-) before.results
RunNotifications ==
    SubSeq(notifications, Len(before.notifications) + 1, Len(notifications))
WroteError == \E i \in DOMAIN writes : writes[i].status = StError
WroteReportPath == \E i \in DOMAIN writes : "report_path" \in DOMAIN writes[i]

ErrorState ==
    /\ analysis.status = StError
    /\ analysis.progress = 0
    /\ analysis.plagiarism_score = 0

\* The positions of process_analysis inside and after the except clause.
HandlerPcs == {"except", "fail_select", "fail_notify", "returned", "propagated"}

\* The kinds of work of the pipeline proper, as recorded in stages.
PipelineStages ==
    {"chunking", "search", "fetch", "similarity", "insert", "report", "upload"}

\* C1 as stated: whenever a step has raised, the run ends with the record in
\* status erreur, progress 0 and score 0.
C1_Original == (Ended /\ AfterRaise) => ErrorState

\* C1, amended: once a step of the try block has raised, the run is in the
\* except clause or past it, so no later pipeline stage runs; the error update
\* is attempted; when that update succeeds the record is erreur / 0 / 0 from
\* then on, the failure notification is attempted and its failure is
\* swallowed (the run returns); when the error update itself raises, the
\* exception leaves the run before any notification attempt and the run has
\* not written status erreur.
C1_ErrorHandling ==
    /\ AfterRaise => pc \in HandlerPcs
    /\ (AfterRaise /\ pc \in {"fail_select", "fail_notify", "returned"}) => ErrorState
    /\ (AfterRaise /\ Returned) => "failure_notification" \in stages
    /\ pc = "propagated" =>
          /\ AfterRaise
          /\ ~WroteError
          /\ "failure_notification" \notin stages
          /\ RunNotifications = <<>>

\* The upload raised, the error state was written, the notification attempt
\* failed silently and the run returned.
C1_Witness ==
    /\ Returned /\ raised_at = "upload"
    /\ ErrorState
    /\ "failure_notification" \in stages
    /\ RunNotifications = <<>>

\* The pages of a stored file that extract_text gets to read.
PagesRead(f) ==
    IF ~Files[f].is_pdf THEN {}
    ELSE IF Files[f].raises_at = 0 THEN DOMAIN Files[f].pages
    ELSE 1..(Files[f].raises_at - 1)

\* The stored files whose extracted text is empty or whitespace-only: those
\* whose pages read hold nothing but whitespace.
BlankFiles ==
    {f \in DOMAIN Files :
        \A p \in PagesRead(f) :
            \A i \in DOMAIN Files[f].pages[p] : IsSpace(Files[f].pages[p][i])}

\* C2: for a document whose extracted text is empty or whitespace-only the
\* run never chunks, searches, fetches, scores, inserts a match, generates or
\* uploads a report, and when it returns without a step having raised the
\* record is termine with score 0 and progress 100 (a raising step is the
\* subject of C1).  The tables, the blob store, the local disk and the record's
\* report path are as the run found them.
C2_BlankDocument ==
    file \in BlankFiles =>
        /\ stages \cap PipelineStages = {}
        /\ total_chunks = 0
        /\ results = before.results
        /\ local_report = before.local_report
        /\ remote_report = before.remote_report
        /\ analysis.report_path = before.analysis.report_path
        /\ (Returned /\ ~AfterRaise) =>
              /\ analysis.status = StDone
              /\ analysis.plagiarism_score = 0
              /\ analysis.progress = 100

\* A PDF whose pages hold only whitespace (blanks, line ends, a form feed, a
\* no-break space) has been run to the end.
C2_Witness ==
    /\ Returned /\ ~AfterRaise
    /\ Files[file].is_pdf /\ UserTexts[file] # <<>>
    /\ analysis.status = StDone /\ analysis.progress = 100

\* A timeout or a connection failure of the backend call.
Transient(o) == o.kind \in {"timeout", "conn_error"}
SimReturned == sim_pc = "returned"

\* C3: with budget r, k <= r timeouts in a row followed by a valid response
\* give that response's value after exactly k sleeps (and k + 1 calls); r + 1
\* failed calls give 0 after exactly r sleeps and r + 1 calls.
C3_Retry ==
    SimReturned =>
        /\ \A k \in 0..sim_retries :
              ( /\ \A i \in 1..k : sim_script[i].kind = "timeout"
                /\ sim_script[k + 1].kind = "valid" )
              => /\ sim_result.value = sim_script[k + 1].value
                 /\ sim_result.sleeps = k
                 /\ sim_result.calls = k + 1
        /\ (\A i \in 1..(sim_retries + 1) : Transient(sim_script[i]))
              => /\ sim_result.value = 0
                 /\ sim_result.sleeps = sim_retries
                 /\ sim_result.calls = sim_retries + 1

\* Two timeouts, then a valid response, with budget 2.
C3_Witness ==
    /\ SimReturned /\ sim_retries = 2
    /\ sim_script[1].kind = "timeout" /\ sim_script[2].kind = "timeout"
    /\ sim_script[3] = [kind |-> "valid", value |-> 400000]
    /\ sim_result = [value |-> 400000, calls |-> 3, sleeps |-> 2]

\* A response was received and it is a non-success status or a malformed payload.
Rejected(o) ==
    o.kind \in {"http_error", "bad_json", "non_list", "empty_list", "non_numeric"}

\* C4: every sleep follows a timeout or a connection failure, and a call
\* answered by a non-success status or a malformed payload is the last call
\* and makes the function return 0.
C4_FailFast ==
    SimReturned =>
        /\ \A i \in 1..sim_result.sleeps : Transient(sim_script[i])
        /\ \A i \in 1..sim_result.calls :
              Rejected(sim_script[i]) => (i = sim_result.calls /\ sim_result.value = 0)

\* C5: every progress value written lies in 0..100; the values are 10 at
\* reading, 10 + floor(index * 70 / total) at block index + 1, 90 at reporting
\* and 100 at done; a written value is lower than the one before it only when
\* it is the 0 of the error update; a run that returns without a raise has
\* written 100 last.
C5_Progress ==
    /\ \A i \in DOMAIN writes :
          /\ writes[i].progress \in 0..100
          /\ writes[i].status = StReading => writes[i].progress = 10
          /\ writes[i].status[1] = "Analyse bloc" =>
                writes[i].progress =
                    10 + ((writes[i].status[2] - 1) * 70) \div writes[i].status[3]
          /\ writes[i].status = StReporting => writes[i].progress = 90
          /\ writes[i].status = StDone => writes[i].progress = 100
    /\ \A i \in 1..(Len(writes) - 1) :
          writes[i + 1].progress < writes[i].progress =>
              (writes[i + 1].status = StError /\ writes[i + 1].progress = 0)
    /\ (Returned /\ ~AfterRaise) => Last(writes).progress = 100

\* The phase a written status belongs to: reading, per-chunk analysis,
\* reporting, and the terminal done and error.
Phase(status) ==
    IF status = StReading THEN 1
    ELSE IF status[1] = "Analyse bloc" THEN 2
    ELSE IF status = StReporting THEN 3
    ELSE 4

\* C6: the statuses written by a run never go back to an earlier phase, and
\* nothing is written after a terminal status: once termine has been written,
\* no other status (in particular erreur) is written.
C6_DoneIsTerminal ==
    \A i, j \in DOMAIN writes :
        i < j => /\ Phase(writes[i].status) <= Phase(writes[j].status)
                 /\ Phase(writes[i].status) # 4

\* C7: a run that has returned has created at most one notification, and
\* exactly one success notification when the record ends termine.
C7_OneNotification ==
    Returned =>
        /\ Len(RunNotifications) <= 1
        /\ analysis.status = StDone => RunNotifications = <<"success">>

\* C8: once a run that generated the report has ended, the local file
\* temp_<analysis_id>.pdf no longer exists.
C8_NoLocalFileLeft == (Ended /\ "report" \in stages) => ~local_report

\* The record has been finalized by a run that went through the chunk loop.
Finalized == analysis.status = StDone /\ total_chunks > 0

\* C9 as stated: the stored score is the mean, over the number of chunks, of
\* each chunk's largest computed score (0 for a chunk without one).
C9_Original ==
    Finalized => analysis.plagiarism_score * total_chunks = sum(chunk_best)

Floor0(x) == IF x < 0 THEN 0 ELSE x
Abs(x) == IF x < 0 THEN 0 - x ELSE x

\* C9, amended: the stored score is the nearest hundredth to the mean, with
\* denominator the number of chunks, of each chunk's largest computed score
\* whatever the threshold, counting 0 for a chunk without a computed score or
\* whose computed scores are all negative.
C9_MeanOfMaxima ==
    Finalized =>
        /\ Len(chunk_best) = total_chunks
        /\ 2 * Abs(analysis.plagiarism_score * total_chunks
                   - sum([k \in DOMAIN chunk_best |-> Floor0(chunk_best[k])]))
              <= total_chunks

\* Maxima 15.00 (not a match) and 40.00 give 27.50.
C9_Witness ==
    /\ Finalized
    /\ chunk_best = <<1500, 4000>>
    /\ analysis.plagiarism_score = 2750

\* C10: the rows of analysis_results all have a score above 15; a row is
\* inserted only by the insert that follows a computed score, for that score
\* and url; and after a score is computed the insert is the next step exactly
\* when the score is above 15.
C10_Threshold ==
    /\ [](\A row \in BagToSet(results) : row.similarity_score > 15 * 100)
    /\ [][pc = "similarity" => ((pc' = "insert") <=> (score' > 15 * 100))]_vars
    /\ [][results' # results =>
            /\ pc = "insert" /\ score > 15 * 100
            /\ results' = results (+) SetToBag({[url |-> web_sources[src].link,
                                                 similarity_score |-> score]})]_vars

\* The first chunk's best score was exactly 15.00 and left no row; a candidate
\* of the second chunk scored 15.01 and is the only row.
C10_Witness ==
    /\ all_chunk_scores = <<1500>>
    /\ RunRows = SetToBag({[url |-> "u1", similarity_score |-> 1501]})


\* The urls of the reported list.
ReportedUrls(sources) == {sources[i].url : i \in DOMAIN sources}

\* C11: the reported list never holds two entries of one url; no step removes
\* or changes an entry; the only step that adds one is the insert of a match
\* whose url is not yet listed, and it adds that match's url and score; the
\* insert of a match whose url is listed, whatever its chunk and score, leaves
\* the list as it is.
C11_Dedup ==
    /\ [](\A i, j \in DOMAIN detected_sources :
            detected_sources[i].url = detected_sources[j].url => i = j)
    /\ [][/\ Len(detected_sources') >= Len(detected_sources)
          /\ \A i \in DOMAIN detected_sources :
                detected_sources'[i] = detected_sources[i]
          /\ detected_sources' # detected_sources => (pc = "insert" /\ pc' = "source")
          /\ (pc = "insert" /\ pc' = "source") =>
                IF web_sources[src].link \in ReportedUrls(detected_sources)
                THEN detected_sources' = detected_sources
                ELSE detected_sources' =
                        detected_sources \o <<[url |-> web_sources[src].link,
                                               score |-> score]>>]_vars

\* u1 matched at 15.01 in the first chunk and at 40.00 in the second: both
\* rows are stored, the list holds u1 once, with 15.01.
C11_Witness ==
    /\ Len(all_chunk_scores) = 1
    /\ detected_sources = <<[url |-> "u1", score |-> 1501]>>
    /\ RunRows = SetToBag({[url |-> "u1", similarity_score |-> 1501],
                           [url |-> "u1", similarity_score |-> 4000]})


\* The whitespace-separated words of a text, read from left to right: a
\* character that is not whitespace opens a word or extends the one that
\* starts right after it.
RECURSIVE WordsOf(_)
WordsOf(text) ==
    IF text = <<>> THEN <<>>
    ELSE LET rest == WordsOf(Tail(text))
         IN  IF IsSpace(Head(text)) THEN rest
             ELSE IF Len(text) > 1 /\ ~IsSpace(text[2])
                  THEN << <<Head(text)>> \o Head(rest) >> \o Tail(rest)
                  ELSE << <<Head(text)>> >> \o rest

\* The words of the chunks, concatenated in order.
RECURSIVE ChunkWords(_)
ChunkWords(chunks) ==
    IF chunks = <<>> THEN <<>>
    ELSE WordsOf(Head(chunks)) \o ChunkWords(Tail(chunks))

SplitReturned == split_pc = "returned"

\* C12: the words of the chunks of split_text(T, L), concatenated in order,
\* are the words of T; every chunk has between 1 and L words and is not the
\* empty string; every chunk but the last has exactly L words; and there is no
\* chunk exactly when T has no word.
C12_SplitText ==
    SplitReturned =>
        /\ ChunkWords(split_out) = WordsOf(split_in)
        /\ \A k \in DOMAIN split_out :
              /\ split_out[k] # <<>>
              /\ Len(WordsOf(split_out[k])) \in 1..split_limit
              /\ k < Len(split_out) => Len(WordsOf(split_out[k])) = split_limit
        /\ (split_out = <<>>) <=> (WordsOf(split_in) = <<>>)

\* "a\xa0b\ra " with limit 2 gives "a b" and "a".
C12_Witness ==
    /\ SplitReturned
    /\ split_limit = 2
    /\ split_in = <<"a", "U+00A0", "b", "\r", "a", " ">>
    /\ split_out = << <<"a", " ", "b">>, <<"a">> >>


\* C13: a search, fetch or similarity call that failed (a timeout, a
\* connection error, a non-success or unparseable response) has given the
\* empty list, the empty text or the similarity 0, and the run has gone on: it
\* is not in the except clause, and no search or similarity step ever raised.
C13_Isolation ==
    /\ failed = "search" => (pc = "source" /\ web_sources = <<>>)
    /\ failed = "fetch" => pc = "source"
    /\ failed = "similarity" => (pc = "source" /\ score = 0)
    /\ raised_at \notin {"search", "similarity"}


\* C14: no two runs for one identifier are ever both between their first and
\* their last write of the record.
C14_SingleOwner ==
    \A t1, t2 \in Active(tasks) : tasks[t1].id = tasks[t2].id => t1 = t2

\* The endpoint was called twice with a1 before the first run started; the
\* first run is writing and the second has not started.
C14_Witness ==
    /\ Len(tasks) = 2
    /\ tasks[1].id = "a1" /\ tasks[2].id = "a1"
    /\ calls[1].sent /\ calls[2].sent
    /\ tasks[1].state = "running" /\ tasks[1].writes = 2
    /\ tasks[2].state = "scheduled"


\* C15, for the calls whose lookup of the record did not raise: a call for an
\* identifier with a stored file path is acknowledged (started) and has added
\* exactly one run, for that identifier; a call for an identifier without a
\* stored file path (no row, or a row whose file_path is null or empty) is
\* answered not-found and has added no run; and a run starts only after the
\* answer of its call has been sent.
C15_Trigger ==
    /\ \A c \in DOMAIN calls :
          /\ (table[calls[c].id] = "path" /\ calls[c].lookup # "raises") =>
                /\ calls[c].answer = "started"
                /\ calls[c].task \in DOMAIN tasks
                /\ tasks[calls[c].task].id = calls[c].id
                /\ \A d \in DOMAIN calls : calls[d].task = calls[c].task => d = c
          /\ (table[calls[c].id] # "path" /\ calls[c].lookup # "raises") =>
                /\ calls[c].answer = "not_found"
                /\ calls[c].task = 0
    /\ \A t \in DOMAIN tasks :
          tasks[t].state # "scheduled" => calls[CallOf(t)].sent


\* C16: whatever the backend answers, the value calculate_similarity returns
\* lies in [0, 1] (0..1000000 millionths), so the score computed from it lies
\* in 0..100 (0..10000 hundredths).
C16_UnitRange ==
    SimReturned =>
        /\ sim_result.value \in 0..1000000
        /\ RoundScore(sim_result.value) \in 0..10000


\* C17: whenever the record carries a report path, the report is in the blob
\* store and the record is termine with progress 100; and a record that
\* carries the report path written by this run is termine, this run having
\* generated and uploaded the report.
C17_ReportOnlyWhenDone ==
    /\ analysis.report_path # NoReport =>
          /\ remote_report
          /\ analysis.status = StDone
          /\ analysis.progress = 100
    /\ WroteReportPath =>
          /\ {"report", "upload"} \subseteq stages
          /\ analysis.status = StDone


\* C18: the run is at one step at a time, and the steps of the chunk loop
\* follow one another in the order of the code: the block's progress write,
\* the search, then for each result in the provider's order (position 1, 2,
\* ...) the fetch, the similarity call and the insert of a match; the block
\* number moves on, by one, only when the position is past the last result of
\* the chunk, and block N + 1's progress write is made at block number N + 1.
C18_Sequential ==
    /\ [][pc = "block" => (pc' \in {"search", "except"} /\ index' = index)]_vars
    /\ [][pc = "search" => (pc' = "source" /\ src' = 1 /\ index' = index)]_vars
    /\ [][pc = "source" =>
            \/ pc' = "similarity" /\ src' = src /\ src <= Len(web_sources)
            \/ pc' = "source" /\ src' = src + 1 /\ src <= Len(web_sources)
            \/ pc' = "except"
            \/ /\ pc' \in {"block", "report_status"}
               /\ src > Len(web_sources)
               /\ Len(all_chunk_scores') = Len(all_chunk_scores) + 1]_vars
    /\ [][pc = "similarity" =>
            /\ pc' \in {"insert", "source"}
            /\ (pc' = "insert" => src' = src)
            /\ (pc' = "source" => src' = src + 1)]_vars
    /\ [][pc = "insert" =>
            \/ pc' = "source" /\ src' = src + 1
            \/ pc' = "except"]_vars
    /\ [][(pc \in {"source", "similarity", "insert"} /\ pc' # "except")
            => web_sources' = web_sources \/ pc' \in {"block", "report_status"}]_vars
    /\ [][index' # index =>
            /\ pc = "source" /\ pc' = "block"
            /\ src > Len(web_sources)
            /\ index' = index + 1]_vars
    /\ [][(writes' # writes /\ Last(writes').status[1] = "Analyse bloc") =>
            /\ pc = "block"
            /\ Last(writes').status[2] = index + 1
            /\ Len(all_chunk_scores) = index]_vars

\* The first chunk's two results were fetched, scored and stored in order, its
\* maximum recorded, and the second block's progress write has been made.
C18_Witness ==
    /\ pc = "search" /\ index = 1
    /\ Last(writes).status = StBlock(2, 2)
    /\ all_chunk_scores = <<4000>>
    /\ detected_sources = <<[url |-> "u1", score |-> 1501],
                            [url |-> "u2", score |-> 4000]>>


\* C19: the urls of the reported list are exactly the urls of the rows this
\* run has inserted into analysis_results so far, every reported entry has a
\* score above 15, and there are at least as many such rows as reported
\* entries.
C19_ReportedAreInserted ==
    /\ ReportedUrls(detected_sources) = {row.url : row \in BagToSet(RunRows)}
    /\ \A i \in DOMAIN detected_sources : detected_sources[i].score > 15 * 100
    /\ BagCardinality(RunRows) >= Len(detected_sources)

\* Three rows have been inserted for two urls.
C19_Witness ==
    /\ ReportedUrls(detected_sources) = {"u1", "u2"}
    /\ Len(detected_sources) = 2
    /\ BagCardinality(RunRows) = 3


\* The labels that end the lifecycle of the record.
TerminalStatus == analysis.status \in {StDone, StError}

\* C20 as stated: every run ends, and once it has ended the record's status
\* is termine or erreur.
C20_Original == <>Ended /\ [](Ended => TerminalStatus)

\* C20, amended: every run ends, by returning or by the exception of the
\* error update leaving it; a run that has returned has left the record in
\* status termine or erreur; a run ended by that exception had a step of the
\* try block raise before, has not written erreur and has left the record as
\* it was then.
C20_Termination ==
    /\ <>Ended
    /\ [](Returned => TerminalStatus)
    /\ [](pc = "propagated" => (AfterRaise /\ ~WroteError))
    /\ [][pc = "propagated" => analysis' = analysis]_vars

\* The report generation raised and so did the error update: the run has
\* ended with the record at the reporting label.
C20_Witness ==
    /\ pc = "propagated" /\ raised_at = "generate"
    /\ analysis.status = StReporting /\ analysis.progress = 90

====
